---- MODULE Spec2Model ----
(***************************************************************************)
(* Model of the node benchmark tool of the repository:                     *)
(*   - the transaction-pool facade of the block construction benchmark     *)
(*     (node/bench/src/construct.rs): PoolTransaction, Transactions,       *)
(*     TransactionsIterator and ConstructionBenchmark;                     *)
(*   - the command line driver of the benchmarks                           *)
(*     (bin/node/bench/src/main.rs).                                       *)
(* Spec is the facade driven by an arbitrary caller; SpecMain is one       *)
(* execution of main for every combination of command line options.        *)
(***************************************************************************)
EXTENDS Integers, Sequences, FiniteSets, TLC

\* ------------------------------------------------------------------ bounds
\* Longest batch of transactions a Transactions collection is created with.
MaxLen == 2
\* Most iterators obtained from ready_at in one behaviour.
MaxIters == 2
\* Most calls of next on one iterator after it has reported the end.
MaxEnd == 2

\* ------------------------------------------------------------ value domains
\* Opaque extrinsic blobs (OpaqueExtrinsic values).
Extrinsics == {"xt_a", "xt_b"}

\* node_primitives::Hash::zero()
ZeroHash == 0

\* node_primitives::Hash values: the zero hash and one other.
Hashes == {ZeroHash, 1}

\* TransactionSource
Sources == {"InBlock", "Local", "External"}

\* core::Mode
Modes == {"Regular", "Profile"}

\* Option<T> as a sequence of at most one element.
None == <<>>
Some(x) == <<x>>

\* The Option<Hash> arguments of report_invalid: no block, or the zero block hash.
BlockOptions == {None, Some(ZeroHash)}

VARIABLES
    txs,        \* Transactions.0 : Vec<Arc<PoolTransaction>>
    created,    \* the vector the Transactions value was created with (history)
    iters,      \* the TransactionsIterator values handed out by ready_at
    bench,      \* Option<ConstructionBenchmark>: the benchmark built by setup
    lastCall,   \* the last operation called, its arguments and its outcome
    opt,        \* main: the parsed command line (Opt)
    pc,         \* main: position in main
    idx,        \* main: position of the loop over benchmarks
    tracing,    \* main: whether sp_tracing was initialised
    stdout,     \* main: lines written to standard output
    stderr,     \* main: lines written to standard error
    logged,     \* main: log::info! records
    ran,        \* main: the benchmarks handed to run_benchmark, in order (history)
    results,    \* main: the results vector
    exitCode,   \* main: None while running, Some(status) once the process ended
    wasm,       \* chain_spec: whether WASM_BINARY is Some (the runtime was built)
    files,      \* chain_spec: what the file at each path holds
    input,      \* chain_spec: the arguments the caller passes
    chainCall,  \* chain_spec: the last function called, its arguments and result
    cli,        \* run: the parsed command line and the configuration made from it
    npc,        \* run: the position of the process in run, new_partial, new_full
    chain_spec, \* run: config.chain_spec, None until create_runner has loaded it
    log,        \* run: what has been entered, built, spawned, started, returned
    database,   \* run: the chain database, "intact" or "purged"
    outcome     \* run: None while running, Some(tag) once run has returned

poolVars == <<txs, created, iters, bench, lastCall>>
mainVars == <<opt, pc, idx, tracing, stdout, stderr, logged, ran, results, exitCode>>
chainVars == <<wasm, files, input, chainCall>>
nodeVars == <<cli, npc, chain_spec, log, database, outcome>>
vars == <<txs, created, iters, bench, lastCall,
          opt, pc, idx, tracing, stdout, stderr, logged, ran, results, exitCode,
          wasm, files, input, chainCall,
          cli, npc, chain_spec, log, database, outcome>>

\* ---------------------------------------------------------- PoolTransaction
\* impl From<OpaqueExtrinsic> for PoolTransaction
From(e) == [data |-> e, hash |-> ZeroHash]

\* Every PoolTransaction the program can build.
PoolTransactions == {From(e) : e \in Extrinsics}

\* The outcome of a call: it returned a value, or it panicked (unimplemented!()).
\* A panic unwinds the caller and leaves the receiver, borrowed by & or &mut
\* and never written before the panic, as it was.
Returned(op, arg, v) == [op |-> op, arg |-> arg, outcome |-> "returned", ret |-> Some(v)]
Panicked(op, arg) == [op |-> op, arg |-> arg, outcome |-> "panicked", ret |-> None]

\* InPoolTransaction::data
TxData(e) ==
    LET p == From(e) IN
    /\ lastCall' = Returned("data", <<p>>, p.data)
    /\ UNCHANGED <<txs, created, iters, bench, mainVars, chainVars, nodeVars>>

\* InPoolTransaction::hash
TxHash(e) ==
    LET p == From(e) IN
    /\ lastCall' = Returned("hash", <<p>>, p.hash)
    /\ UNCHANGED <<txs, created, iters, bench, mainVars, chainVars, nodeVars>>

\* A priority that returns a default instead of panicking.
TxPriorityMutant(e) ==
    /\ lastCall' = Returned("priority", <<From(e)>>, 0)
    /\ UNCHANGED <<txs, created, iters, bench, mainVars, chainVars, nodeVars>>

\* InPoolTransaction::priority
TxPriority(e) ==
    /\ lastCall' = Panicked("priority", <<From(e)>>)
    /\ UNCHANGED <<txs, created, iters, bench, mainVars, chainVars, nodeVars>>

\* InPoolTransaction::longevity
TxLongevity(e) ==
    /\ lastCall' = Panicked("longevity", <<From(e)>>)
    /\ UNCHANGED <<txs, created, iters, bench, mainVars, chainVars, nodeVars>>

\* InPoolTransaction::requires
TxRequires(e) ==
    /\ lastCall' = Panicked("requires", <<From(e)>>)
    /\ UNCHANGED <<txs, created, iters, bench, mainVars, chainVars, nodeVars>>

\* InPoolTransaction::provides
TxProvides(e) ==
    /\ lastCall' = Panicked("provides", <<From(e)>>)
    /\ UNCHANGED <<txs, created, iters, bench, mainVars, chainVars, nodeVars>>

\* InPoolTransaction::is_propagable
TxIsPropagable(e) ==
    /\ lastCall' = Panicked("is_propagable", <<From(e)>>)
    /\ UNCHANGED <<txs, created, iters, bench, mainVars, chainVars, nodeVars>>

\* ------------------------------------------------------ TransactionsIterator
\* An iterator consumed from the back (next_back for next).
IntoIterNextBack(rest) ==
    IF rest = <<>>
    THEN [item |-> None, rest |-> <<>>]
    ELSE [item |-> Some(rest[Len(rest)]), rest |-> SubSeq(rest, 1, Len(rest) - 1)]

\* std::vec::IntoIter::next as used by TransactionsIterator::next: the front
\* element and the rest, or None and nothing consumed.
IntoIterNext(rest) ==
    IF rest = <<>>
    THEN [item |-> None, rest |-> <<>>]
    ELSE [item |-> Some(Head(rest)), rest |-> Tail(rest)]

\* self.0.clone().into_iter(): an iterator owning a copy of the vector.
\* yielded, calls and last are history: the items next returned, the number
\* of calls of next and the result of the last one.
IntoIter(v) == [rest |-> v, yielded |-> <<>>, calls |-> 0, last |-> None]

\* A next of iterators that share one cursor over the collection.
IterNextMutant(i) ==
    LET it == iters[i]
        r  == IntoIterNext(it.rest)
    IN
    /\ it.calls - Len(it.yielded) < MaxEnd
    /\ iters' = [j \in DOMAIN iters |->
                    IF j = i
                    THEN [rest    |-> r.rest,
                          yielded |-> it.yielded \o r.item,
                          calls   |-> it.calls + 1,
                          last    |-> r.item]
                    ELSE [iters[j] EXCEPT !.rest = IntoIterNext(@).rest]]
    /\ lastCall' = Returned("next", <<i>>, r.item)
    /\ UNCHANGED <<txs, created, bench, mainVars, chainVars, nodeVars>>

\* Iterator::next for TransactionsIterator
IterNext(i) ==
    LET it == iters[i]
        r  == IntoIterNext(it.rest)
    IN
    /\ it.calls - Len(it.yielded) < MaxEnd
    /\ iters' = [iters EXCEPT ![i] =
                    [rest    |-> r.rest,
                     yielded |-> it.yielded \o r.item,
                     calls   |-> it.calls + 1,
                     last    |-> r.item]]
    /\ lastCall' = Returned("next", <<i>>, r.item)
    /\ UNCHANGED <<txs, created, bench, mainVars, chainVars, nodeVars>>

\* A report_invalid that drops the reported transaction from what is ahead.
IterReportInvalidMutant(i, tx) ==
    LET keep(p) == p # tx IN
    /\ iters' = [iters EXCEPT ![i].rest = SelectSeq(@, keep)]
    /\ lastCall' = Returned("iter_report_invalid", <<i, tx>>, <<>>)
    /\ UNCHANGED <<txs, created, bench, mainVars, chainVars, nodeVars>>

\* ReadyTransactions::report_invalid for TransactionsIterator: an empty body.
IterReportInvalid(i, tx) ==
    /\ lastCall' = Returned("iter_report_invalid", <<i, tx>>, <<>>)
    /\ UNCHANGED <<txs, created, iters, bench, mainVars, chainVars, nodeVars>>

\* -------------------------------------------- TransactionPool for Transactions
\* A ready_at whose iterator starts after the first transaction.
ReadyAtMutant(at) ==
    /\ Len(iters) < MaxIters
    /\ iters' = Append(iters, IntoIter(IF txs = <<>> THEN <<>> ELSE Tail(txs)))
    /\ lastCall' = Returned("ready_at", <<at>>, Len(iters) + 1)
    /\ UNCHANGED <<txs, created, bench, mainVars, chainVars, nodeVars>>

\* Transactions::ready_at
ReadyAt(at) ==
    /\ Len(iters) < MaxIters
    /\ iters' = Append(iters, IntoIter(txs))
    /\ lastCall' = Returned("ready_at", <<at>>, Len(iters) + 1)
    /\ UNCHANGED <<txs, created, bench, mainVars, chainVars, nodeVars>>

\* The positions of v whose transaction hash is reported in invalid.
Reported(v, invalid) == {k \in DOMAIN v : v[k].hash \in invalid}

\* A report_invalid that removes and returns the reported transactions.
PoolReportInvalidMutant(at, invalid) ==
    LET hit(p) == p.hash \in invalid
        keep(p) == ~hit(p)
    IN
    /\ txs' = SelectSeq(txs, keep)
    /\ lastCall' = Returned("report_invalid", <<at, invalid>>, SelectSeq(txs, hit))
    /\ UNCHANGED <<created, iters, bench, mainVars, chainVars, nodeVars>>

\* Transactions::report_invalid: Default::default(), the empty vector.
\* invalid is the key set of the TxInvalidityReportMap; its values (the
\* optional errors) are not read.
PoolReportInvalid(at, invalid) ==
    /\ lastCall' = Returned("report_invalid", <<at, invalid>>, <<>>)
    /\ UNCHANGED <<txs, created, iters, bench, mainVars, chainVars, nodeVars>>

\* A submit_one that wraps the extrinsic and adds it to the collection.
SubmitOneMutant(at, source, xt) ==
    /\ Len(txs) < MaxLen + 1
    /\ txs' = Append(txs, From(xt))
    /\ lastCall' = Returned("submit_one", <<>>, From(xt).hash)
    /\ UNCHANGED <<created, iters, bench, mainVars, chainVars, nodeVars>>

\* Transactions::submit_at
SubmitAt(at, source, xts) ==
    /\ lastCall' = Panicked("submit_at", <<>>)
    /\ UNCHANGED <<txs, created, iters, bench, mainVars, chainVars, nodeVars>>

\* Transactions::submit_one
SubmitOne(at, source, xt) ==
    /\ lastCall' = Panicked("submit_one", <<>>)
    /\ UNCHANGED <<txs, created, iters, bench, mainVars, chainVars, nodeVars>>

\* Transactions::submit_and_watch
SubmitAndWatch(at, source, xt) ==
    /\ lastCall' = Panicked("submit_and_watch", <<>>)
    /\ UNCHANGED <<txs, created, iters, bench, mainVars, chainVars, nodeVars>>

\* Transactions::ready
Ready ==
    /\ lastCall' = Panicked("ready", <<>>)
    /\ UNCHANGED <<txs, created, iters, bench, mainVars, chainVars, nodeVars>>

\* Transactions::futures
Futures ==
    /\ lastCall' = Panicked("futures", <<>>)
    /\ UNCHANGED <<txs, created, iters, bench, mainVars, chainVars, nodeVars>>

\* Transactions::status
Status ==
    /\ lastCall' = Panicked("status", <<>>)
    /\ UNCHANGED <<txs, created, iters, bench, mainVars, chainVars, nodeVars>>

\* Transactions::import_notification_stream
ImportNotificationStream ==
    /\ lastCall' = Panicked("import_notification_stream", <<>>)
    /\ UNCHANGED <<txs, created, iters, bench, mainVars, chainVars, nodeVars>>

\* Transactions::on_broadcasted
OnBroadcasted(propagations) ==
    /\ lastCall' = Panicked("on_broadcasted", <<>>)
    /\ UNCHANGED <<txs, created, iters, bench, mainVars, chainVars, nodeVars>>

\* Transactions::hash_of
HashOf(xt) ==
    /\ lastCall' = Panicked("hash_of", <<>>)
    /\ UNCHANGED <<txs, created, iters, bench, mainVars, chainVars, nodeVars>>

\* Transactions::ready_transaction
ReadyTransaction(hash) ==
    /\ lastCall' = Panicked("ready_transaction", <<>>)
    /\ UNCHANGED <<txs, created, iters, bench, mainVars, chainVars, nodeVars>>

\* Transactions::ready_at_with_timeout
ReadyAtWithTimeout(at, timeout) ==
    /\ lastCall' = Panicked("ready_at_with_timeout", <<>>)
    /\ UNCHANGED <<txs, created, iters, bench, mainVars, chainVars, nodeVars>>

\* ------------------------------------------------------ ConstructionBenchmark
\* ConstructionBenchmarkDescription::setup
Setup ==
    /\ bench' = Some([database |-> "", transactions |-> ""])
    /\ lastCall' = Returned("setup", <<>>, "ConstructionBenchmark")
    /\ UNCHANGED <<txs, created, iters, mainVars, chainVars, nodeVars>>

\* ConstructionBenchmark::run: Duration::from_secs(0), nothing else.
Run(mode) ==
    /\ bench # None
    /\ lastCall' = Returned("run", <<mode>>, 0)
    /\ UNCHANGED <<txs, created, iters, bench, mainVars, chainVars, nodeVars>>

\* ------------------------------------------------------------ specification
\* Sequences over S of length at most n.
SeqsUpTo(S, n) == UNION {[1..k -> S] : k \in 0..n}

\* Result::Ok with the trace of functions entered (see chain_spec below).
Ok(v, trace) == [tag |-> "Ok", val |-> v, trace |-> trace]

\* The paths at which a file may exist.
FilePaths == {"spec.json", "local"}

\* run has not been called.
NodeIdle ==
    /\ cli = [krate |-> "node", subcommand |-> "None", authority |-> FALSE,
              disable_grandpa |-> FALSE, telemetry_endpoints |-> "none"]
    /\ npc = "idle"
    /\ chain_spec = None
    /\ log = <<>>
    /\ database = "intact"
    /\ outcome = None

\* chain_spec.rs is not in use in Spec and SpecMain.
ChainIdle ==
    /\ wasm = TRUE
    /\ files = [p \in FilePaths |-> "missing"]
    /\ input = [id |-> "dev", genesis |-> <<"wasm", <<>>, "root", <<>>, TRUE>>,
                deps |-> <<"client", "pool", TRUE>>]
    /\ chainCall = [krate |-> "node", fn |-> "none", arg |-> <<>>,
                    result |-> Ok("none", <<>>)]

\* main is not running in Spec.
MainIdle ==
    /\ opt = [list |-> FALSE, json |-> FALSE, filter |-> None, mode |-> "Regular"]
    /\ pc = "idle"
    /\ idx = 0
    /\ tracing = FALSE
    /\ stdout = <<>>
    /\ stderr = <<>>
    /\ logged = <<>>
    /\ ran = <<>>
    /\ results = <<>>
    /\ exitCode = None

\* A Transactions value holding any batch of wrapped extrinsics, no iterator
\* handed out yet and no benchmark set up.
Init ==
    /\ txs \in SeqsUpTo(PoolTransactions, MaxLen)
    /\ created = txs
    /\ iters = <<>>
    /\ bench = None
    /\ lastCall = [op |-> "new", arg |-> <<>>, outcome |-> "returned", ret |-> None]
    /\ MainIdle
    /\ ChainIdle
    /\ NodeIdle

Next ==
    \/ \E e \in Extrinsics : TxData(e)
    \/ \E e \in Extrinsics : TxHash(e)
    \/ \E e \in Extrinsics : TxPriority(e)
    \/ \E e \in Extrinsics : TxLongevity(e)
    \/ \E e \in Extrinsics : TxRequires(e)
    \/ \E e \in Extrinsics : TxProvides(e)
    \/ \E e \in Extrinsics : TxIsPropagable(e)
    \/ \E i \in DOMAIN iters : IterNext(i)
    \/ \E i \in DOMAIN iters, tx \in PoolTransactions : IterReportInvalid(i, tx)
    \/ \E at \in Hashes : ReadyAt(at)
    \/ \E at \in BlockOptions, invalid \in SUBSET Hashes :
           PoolReportInvalid(at, invalid)
    \/ \E at \in Hashes, source \in Sources : SubmitAt(at, source, <<>>)
    \/ \E source \in Sources, xt \in Extrinsics : SubmitOne(ZeroHash, source, xt)
    \/ \E at \in Hashes, xt \in Extrinsics : SubmitAndWatch(at, "External", xt)
    \/ Ready
    \/ Futures
    \/ Status
    \/ ImportNotificationStream
    \/ \E propagations \in {{}, Hashes} : OnBroadcasted(propagations)
    \/ \E xt \in Extrinsics : HashOf(xt)
    \/ \E hash \in Hashes : ReadyTransaction(hash)
    \/ \E at \in Hashes : ReadyAtWithTimeout(at, 0)
    \/ Setup
    \/ \E mode \in Modes : Run(mode)

Spec == Init /\ [][Next]_vars

\* ------------------------------------------------------------------- main
\* Strings that are searched are sequences of characters.
Chars(w) ==
    CASE w = "node"     -> <<"n", "o", "d", "e">>
      [] w = "import"   -> <<"i", "m", "p", "o", "r", "t">>
      [] w = "proposer" -> <<"p", "r", "o", "p", "o", "s", "e", "r">>
      [] w = "txpool"   -> <<"t", "x", "p", "o", "o", "l">>
      [] w = "trie"     -> <<"t", "r", "i", "e">>
      [] w = "r"        -> <<"r">>
      [] w = "::"       -> <<":", ":">>
      [] w = ""         -> <<>>

\* Path::full: "::" and the segment, for every segment in order.
RECURSIVE full(_)
full(path) ==
    IF path = <<>> THEN <<>>
    ELSE full(SubSeq(path, 1, Len(path) - 1)) \o Chars("::") \o Chars(path[Len(path)])

\* str::contains
Contains(text, part) ==
    \E k \in 0..(Len(text) - Len(part)) : SubSeq(text, k + 1, k + Len(part)) = part

\* Path::has: the full path contains the query.
has(path, query) == Contains(full(path), query)

\* The benchmarks vector of main, with each description's name() and path().
ImportBenchmarkDescription ==
    [kind |-> "import", name |-> "Block import benchmark", path |-> <<"node", "import">>]

ConstructionBenchmarkDescription ==
    [kind |-> "construction", name |-> "Block construction benchmark",
     path |-> <<"node", "proposer">>]

PoolBenchmarkDescription ==
    [kind |-> "txpool", name |-> "Transaction pool benchmark", path |-> <<"node", "txpool">>]

benchmarks ==
    <<ImportBenchmarkDescription, ConstructionBenchmarkDescription, PoolBenchmarkDescription>>

\* The positional filter arguments tried: none, a query matching all three
\* paths, one matching each single path, one matching two paths, one matching
\* no path, and the empty string.
Filters ==
    {None} \cup {Some(Chars(w)) : w \in {"node", "import", "proposer", "txpool", "r", "trie", ""}}

\* opt.filter.as_ref().map(|f| benchmark.path().has(f)).unwrap_or(true)
Selected(o, benchmark) ==
    IF o.filter = None THEN TRUE ELSE has(benchmark.path, o.filter[1])

\* core::run_benchmark: the output of one benchmark, carrying its name.
run_benchmark(benchmark, mode) == [name |-> benchmark.name, mode |-> mode]

\* log::info!: recorded by the logger sp_tracing installs, dropped without one.
Log(lines) == IF tracing THEN logged \o lines ELSE logged

\* main, lines 76-80 and the branch on opt.list.
Start ==
    /\ pc = "start"
    /\ tracing' = ~opt.json
    /\ pc' = IF opt.list THEN "list" ELSE "run"
    /\ UNCHANGED <<opt, idx, stdout, stderr, logged, ran, results, exitCode, poolVars, chainVars, nodeVars>>

\* main, lines 101-104: the heading of the listing.
ListHeader ==
    /\ pc = "list"
    /\ stdout' = stdout \o <<<<"Available benchmarks:">>>>
                        \o (IF opt.filter # None
                            THEN <<<<"filtered by", opt.filter[1]>>>>
                            ELSE <<>>)
    /\ pc' = "list_loop"
    /\ UNCHANGED <<opt, idx, tracing, stderr, logged, ran, results, exitCode, poolVars, chainVars, nodeVars>>

\* A listing loop that does not look at the filter.
ListItemMutant ==
    /\ pc = "list_loop"
    /\ idx <= Len(benchmarks)
    /\ stdout' = Append(stdout, <<"item", benchmarks[idx].name, full(benchmarks[idx].path)>>)
    /\ idx' = idx + 1
    /\ UNCHANGED <<opt, pc, tracing, stderr, logged, ran, results, exitCode, poolVars, chainVars, nodeVars>>

\* main, lines 105-109: one pass of the listing loop.
ListItem ==
    /\ pc = "list_loop"
    /\ idx <= Len(benchmarks)
    /\ stdout' = IF Selected(opt, benchmarks[idx])
                 THEN Append(stdout,
                             <<"item", benchmarks[idx].name, full(benchmarks[idx].path)>>)
                 ELSE stdout
    /\ idx' = idx + 1
    /\ UNCHANGED <<opt, pc, tracing, stderr, logged, ran, results, exitCode, poolVars, chainVars, nodeVars>>

\* main, line 110: return from the listing.
ListReturn ==
    /\ pc = "list_loop"
    /\ idx > Len(benchmarks)
    /\ pc' = "done"
    /\ exitCode' = Some(0)
    /\ UNCHANGED <<opt, idx, tracing, stdout, stderr, logged, ran, results, poolVars, chainVars, nodeVars>>

\* A run loop that does not look at the filter.
RunLoopMutant ==
    /\ pc = "run"
    /\ idx <= Len(benchmarks)
    /\ LET benchmark == benchmarks[idx]
           result    == run_benchmark(benchmark, opt.mode)
       IN
       /\ logged' = Log(<<<<"Starting", benchmark.name>>, <<"result", result>>>>)
       /\ ran' = Append(ran, benchmark.kind)
       /\ results' = Append(results, result)
    /\ idx' = idx + 1
    /\ UNCHANGED <<opt, pc, tracing, stdout, stderr, exitCode, poolVars, chainVars, nodeVars>>

\* main, lines 114-122: one pass of the loop that runs the benchmarks.
RunLoop ==
    /\ pc = "run"
    /\ idx <= Len(benchmarks)
    /\ LET benchmark == benchmarks[idx]
           result    == run_benchmark(benchmark, opt.mode)
       IN
       IF Selected(opt, benchmark)
       THEN /\ logged' = Log(<<<<"Starting", benchmark.name>>, <<"result", result>>>>)
            /\ ran' = Append(ran, benchmark.kind)
            /\ results' = Append(results, result)
       ELSE UNCHANGED <<logged, ran, results>>
    /\ idx' = idx + 1
    /\ UNCHANGED <<opt, pc, tracing, stdout, stderr, exitCode, poolVars, chainVars, nodeVars>>

\* An emptiness check that reports and lets main go on to the output.
CheckResultsMutant ==
    /\ pc = "run"
    /\ idx > Len(benchmarks)
    /\ stderr' = IF results = <<>>
                 THEN Append(stderr, <<"No benchmark was found for query">>)
                 ELSE stderr
    /\ pc' = "report"
    /\ UNCHANGED <<opt, idx, tracing, stdout, logged, ran, results, exitCode, poolVars, chainVars, nodeVars>>

\* main, lines 124-127: no result, so the query matched nothing.
CheckResults ==
    /\ pc = "run"
    /\ idx > Len(benchmarks)
    /\ IF results = <<>>
       THEN /\ stderr' = Append(stderr, <<"No benchmark was found for query">>)
            /\ exitCode' = Some(1)
            /\ pc' = "exited"
       ELSE /\ pc' = "report"
            /\ UNCHANGED <<stderr, exitCode>>
    /\ UNCHANGED <<opt, idx, tracing, stdout, logged, ran, results, poolVars, chainVars, nodeVars>>

\* main, lines 129-134: the JSON output and the return from main.
Report ==
    /\ pc = "report"
    /\ stdout' = IF opt.json THEN Append(stdout, <<"json", results>>) ELSE stdout
    /\ pc' = "done"
    /\ exitCode' = Some(0)
    /\ UNCHANGED <<opt, idx, tracing, stderr, logged, ran, results, poolVars, chainVars, nodeVars>>

\* The facade is not used by main.
PoolIdle ==
    /\ txs = <<>>
    /\ created = <<>>
    /\ iters = <<>>
    /\ bench = None
    /\ lastCall = [op |-> "new", arg |-> <<>>, outcome |-> "returned", ret |-> None]

\* Opt::parse() has returned, for every command line.
InitMain ==
    /\ opt \in [list : BOOLEAN, json : BOOLEAN, filter : Filters, mode : Modes]
    /\ pc = "start"
    /\ idx = 1
    /\ tracing = FALSE
    /\ stdout = <<>>
    /\ stderr = <<>>
    /\ logged = <<>>
    /\ ran = <<>>
    /\ results = <<>>
    /\ exitCode = None
    /\ PoolIdle
    /\ ChainIdle
    /\ NodeIdle

NextMain ==
    \/ Start
    \/ ListHeader
    \/ ListItem
    \/ ListReturn
    \/ RunLoop
    \/ CheckResults
    \/ Report

SpecMain == InitMain /\ [][NextMain]_vars

\* -------------------------------------------------------------- chain_spec
\* Most authorities and most endowed accounts handed to testnet_genesis.
MaxAuthorities == 2
MaxEndowed == 2

\* Result<T, String> and a panic: the value or message, and trace, the
\* functions of the crate and of its libraries entered on the way (history).
Err(msg, trace) == [tag |-> "Err", val |-> msg, trace |-> trace]
Panic(msg, trace) == [tag |-> "Panic", val |-> msg, trace |-> trace]

\* The `?` operator and Ok(..) around a continuation: r with `before` put in
\* front of its trace.
After(before, r) == [r EXCEPT !.trace = before \o @]

\* The chain identifiers tried: the names the crates know and two paths.
ChainIds == {"dev", "development", "local", "local_testnet", "", "spec.json", "none.json"}

\* What a file may hold: nothing
\* (no file), text that is no chain spec ("garbage"), or a chain spec written
\* by the user: CustomSpecJson ("custom") or DevnetSpecJson ("devnet").
CustomSpecJson ==
    [json |-> [name |-> "Custom", id |-> "custom", chainType |-> "Live",
               genesis |-> [runtime |-> "custom"], bootNodes |-> <<>>]]
DevnetSpecJson ==
    [json |-> [name |-> "Team Devnet", id |-> "devnet", chainType |-> "Live",
               genesis |-> [runtime |-> "devnet"], bootNodes |-> <<>>]]
FileContents == {"missing", "garbage", "custom", "devnet"}

\* The JSON text of a file that holds a chain spec.
FileJson(content) == IF content = "devnet" THEN DevnetSpecJson ELSE CustomSpecJson

\* get_account_id_from_seed::<sr25519::Public>
get_account_id_from_seed(seed) == <<"account", seed>>

\* authority_keys_from_seed: the Aura key and the Grandpa key of the seed.
authority_keys_from_seed(seed) == <<<<"aura", seed>>, <<"grandpa", seed>>>>

\* 1 << 60, as mantissa and shift: the value exceeds the checker's integers.
Balance == <<1, 60>>

\* A testnet_genesis that keeps one entry per account (balances as a map).
testnet_genesis_mutant(wasm_binary, initial_authorities, root_key, endowed_accounts, enable_println) ==
    LET first(k) == \A j \in 1..(k - 1) : endowed_accounts[j] # endowed_accounts[k]
        firsts == {k \in DOMAIN endowed_accounts : first(k)}
        RECURSIVE pick(_)
        pick(k) == IF k > Len(endowed_accounts) THEN <<>>
                   ELSE (IF k \in firsts THEN <<<<endowed_accounts[k], Balance>>>> ELSE <<>>)
                        \o pick(k + 1)
    IN
    [system   |-> [config |-> "default"],
     balances |-> [balances |-> pick(1), dev_accounts |-> Some(<<0, Balance, None>>)],
     aura     |-> [authorities |->
                     [k \in DOMAIN initial_authorities |-> initial_authorities[k][1]]],
     grandpa  |-> [config |-> "default",
                   authorities |->
                     [k \in DOMAIN initial_authorities |-> <<initial_authorities[k][2], 1>>]],
     sudo     |-> [key |-> Some(root_key)]]

\* testnet_genesis (node/cli)
testnet_genesis(wasm_binary, initial_authorities, root_key, endowed_accounts, enable_println) ==
    [system   |-> [config |-> "default"],
     balances |-> [balances |->
                     [k \in DOMAIN endowed_accounts |-> <<endowed_accounts[k], Balance>>],
                   dev_accounts |-> Some(<<0, Balance, None>>)],
     aura     |-> [authorities |->
                     [k \in DOMAIN initial_authorities |-> initial_authorities[k][1]]],
     grandpa  |-> [config |-> "default",
                   authorities |->
                     [k \in DOMAIN initial_authorities |-> <<initial_authorities[k][2], 1>>]],
     sudo     |-> [key |-> Some(root_key)]]

\* serde_json::to_string / to_vec: the JSON text of a value; an object has
\* the fields of the value as its members.
to_json(v) == [json |-> v]

\* The members a chain spec in JSON must have (sc_chain_spec's ClientSpec).
RequiredSpecFields == {"name", "id", "bootNodes", "genesis"}

\* GenericChainSpec::from_json_bytes: the chain spec read from JSON text, or
\* the error of its parser when a required member is missing.
from_json_bytes(text) ==
    IF RequiredSpecFields \subseteq DOMAIN text.json
    THEN Ok([name |-> text.json.name, id |-> text.json.id,
             genesis |-> text.json.genesis], <<"from_json_bytes">>)
    ELSE Err("Error parsing embedded file: missing field", <<"from_json_bytes">>)

\* GenericChainSpec::from_json_file: the file is opened and parsed.
from_json_file(path) ==
    LET content == IF path \in FilePaths THEN files[path] ELSE "missing" IN
    IF content = "missing"
    THEN Err("Error opening spec file", <<"from_json_file">>)
    ELSE IF content = "garbage"
    THEN Err("Error parsing spec file", <<"from_json_file">>)
    ELSE After(<<"from_json_file">>,
               [from_json_bytes(FileJson(content)) EXCEPT !.trace = <<>>])

\* A development_config that makes its keys before it looks for the wasm
\* binary.
development_config_mutant ==
    LET genesis == testnet_genesis(
            "wasm",
            <<authority_keys_from_seed("Alice")>>,
            get_account_id_from_seed("Alice"),
            <<get_account_id_from_seed("Alice"), get_account_id_from_seed("Bob"),
              get_account_id_from_seed("Alice//stash"),
              get_account_id_from_seed("Bob//stash")>>,
            TRUE)
    IN IF ~wasm
       THEN Err("Development wasm binary not available",
                <<"development_config", "get_from_seed">>)
       ELSE After(<<"development_config", "get_from_seed", "testnet_genesis", "to_string">>,
                  from_json_bytes(to_json(genesis)))

\* development_config (node/cli)
development_config ==
    IF ~wasm
    THEN Err("Development wasm binary not available", <<"development_config">>)
    ELSE LET genesis == testnet_genesis(
                 "wasm",
                 <<authority_keys_from_seed("Alice")>>,
                 get_account_id_from_seed("Alice"),
                 <<get_account_id_from_seed("Alice"), get_account_id_from_seed("Bob"),
                   get_account_id_from_seed("Alice//stash"),
                   get_account_id_from_seed("Bob//stash")>>,
                 TRUE)
         IN After(<<"development_config", "get_from_seed", "testnet_genesis", "to_string">>,
                  from_json_bytes(to_json(genesis)))

\* local_testnet_config (node/cli)
local_testnet_config ==
    IF ~wasm
    THEN Err("Development wasm binary not available", <<"local_testnet_config">>)
    ELSE LET genesis == testnet_genesis(
                 "wasm",
                 <<authority_keys_from_seed("Alice"), authority_keys_from_seed("Bob")>>,
                 get_account_id_from_seed("Alice"),
                 <<get_account_id_from_seed("Alice"), get_account_id_from_seed("Bob"),
                   get_account_id_from_seed("Charlie"), get_account_id_from_seed("Dave"),
                   get_account_id_from_seed("Eve"), get_account_id_from_seed("Ferdie"),
                   get_account_id_from_seed("Alice//stash"),
                   get_account_id_from_seed("Bob//stash"),
                   get_account_id_from_seed("Charlie//stash"),
                   get_account_id_from_seed("Dave//stash"),
                   get_account_id_from_seed("Eve//stash"),
                   get_account_id_from_seed("Ferdie//stash")>>,
                 TRUE)
         IN After(<<"local_testnet_config", "get_from_seed", "testnet_genesis", "to_string">>,
                  from_json_bytes(to_json(genesis)))

\* development_config (bin/node/cli): the chain spec is written as JSON.
bin_development_config ==
    IF ~wasm
    THEN Err("Development wasm binary not available", <<"development_config">>)
    ELSE LET genesis ==
                 [name |-> "Development", id |-> "dev", chainType |-> "Development",
                  genesis |->
                      [runtime |->
                          [system |-> [code |-> "0x wasm"],
                           balances |-> [balances |->
                               <<<<get_account_id_from_seed("Alice"), Balance>>,
                                 <<get_account_id_from_seed("Bob"), Balance>>>>],
                           timestamp |-> [minPeriod |-> 1000]]],
                  bootNodes |-> <<>>, telemetryEndpoints |-> "null", protocolId |-> "null",
                  properties |-> "null", consensusEngine |-> "null",
                  codeSubstitutes |-> <<>>]
         IN After(<<"development_config", "get_from_seed", "to_vec">>,
                  from_json_bytes(to_json(genesis)))

\* local_testnet_config (bin/node/cli)
bin_local_testnet_config ==
    IF ~wasm
    THEN Err("Development wasm binary not available", <<"local_testnet_config">>)
    ELSE LET genesis ==
                 [name |-> "Local Testnet", id |-> "local_testnet", chainType |-> "Local",
                  genesis |->
                      [runtime |->
                          [system |-> [code |-> "0x wasm"],
                           balances |-> [balances |->
                               <<<<get_account_id_from_seed("Alice"), Balance>>,
                                 <<get_account_id_from_seed("Bob"), Balance>>,
                                 <<get_account_id_from_seed("Charlie"), Balance>>>>],
                           timestamp |-> [minPeriod |-> 1000]]],
                  bootNodes |-> <<>>, telemetryEndpoints |-> "null", protocolId |-> "null",
                  properties |-> "null", consensusEngine |-> "null",
                  codeSubstitutes |-> <<>>]
         IN After(<<"local_testnet_config", "get_from_seed", "to_vec">>,
                  from_json_bytes(to_json(genesis)))

\* impl From<&str> for Alternative (the same in both crates)
AlternativeFrom(id) ==
    CASE id \in {"dev", "development"}      -> Ok("Development", <<"Alternative::from">>)
      [] id \in {"local", "local_testnet"}  -> Ok("LocalTestnet", <<"Alternative::from">>)
      [] OTHER -> Panic("Invalid chain spec name", <<"Alternative::from">>)

\* chain_spec::load_spec (node/cli)
load_spec(id) ==
    LET alt == AlternativeFrom(id) IN
    IF alt.tag = "Panic" THEN alt
    ELSE After(alt.trace, IF alt.val = "Development" THEN development_config
                          ELSE local_testnet_config)

\* chain_spec::load_spec (bin/node/cli)
bin_load_spec(id) ==
    LET alt == AlternativeFrom(id) IN
    IF alt.tag = "Panic" THEN alt
    ELSE After(alt.trace, IF alt.val = "Development" THEN bin_development_config
                          ELSE bin_local_testnet_config)

\* A Cli::load_spec that unwraps the result of the builder or loader.
cli_load_spec_mutant(id) ==
    LET r == CASE id = "dev"           -> development_config
               [] id = "local_testnet" -> local_testnet_config
               [] OTHER                -> from_json_file(id)
    IN IF r.tag = "Err" THEN Panic(r.val, r.trace) ELSE r

\* Cli::load_spec (node/cli): Box::new(spec) of the builder's or loader's Ok.
cli_load_spec(id) ==
    CASE id = "dev"           -> development_config
      [] id = "local_testnet" -> local_testnet_config
      [] OTHER                -> from_json_file(id)

\* Cli::load_spec (bin/node/cli)
bin_cli_load_spec(id) ==
    CASE id = "dev"          -> bin_development_config
      [] id \in {"", "local"} -> bin_local_testnet_config
      [] OTHER               -> from_json_file(id)

\* The account and authority values handed to testnet_genesis.
Accounts == {get_account_id_from_seed(seed) : seed \in {"Alice", "Bob"}}
AuthorityKeys == {authority_keys_from_seed(seed) : seed \in {"Alice", "Bob"}}

\* The arguments of testnet_genesis tried: wasm_binary, initial_authorities,
\* root_key, endowed_accounts, enable_println.
GenesisArgs ==
    {"", "wasm"} \X SeqsUpTo(AuthorityKeys, MaxAuthorities) \X Accounts
        \X SeqsUpTo(Accounts, MaxEndowed) \X BOOLEAN

\* The dependencies handed to create_full: client, pool, deny_unsafe.
FullDeps == {"client_a", "client_b"} \X {"pool_a", "pool_b"} \X BOOLEAN

\* What a caller passes: any identifier, any arguments of testnet_genesis, or
\* any dependencies of create_full.
Inputs ==
    LET genesis == <<"wasm", <<>>, get_account_id_from_seed("Alice"), <<>>, TRUE>>
        deps == <<"client_a", "pool_a", TRUE>>
    IN [id : ChainIds, genesis : {genesis}, deps : {deps}]
           \cup [id : {"dev"}, genesis : GenesisArgs, deps : {deps}]
           \cup [id : {"dev"}, genesis : {genesis}, deps : FullDeps]

\* The record of a call of a function of chain_spec.rs or of Cli::load_spec.
Called(krate, fn, arg, result) == [krate |-> krate, fn |-> fn, arg |-> arg, result |-> result]

CallTestnetGenesis ==
    /\ chainCall' = Called("node", "testnet_genesis", input.genesis,
           Ok(testnet_genesis(input.genesis[1], input.genesis[2], input.genesis[3],
                              input.genesis[4], input.genesis[5]),
              <<"testnet_genesis">>))
    /\ UNCHANGED <<wasm, files, input, poolVars, mainVars, nodeVars>>

CallDevelopmentConfig ==
    /\ chainCall' = Called("node", "development_config", <<>>, development_config)
    /\ UNCHANGED <<wasm, files, input, poolVars, mainVars, nodeVars>>

CallLocalTestnetConfig ==
    /\ chainCall' = Called("node", "local_testnet_config", <<>>, local_testnet_config)
    /\ UNCHANGED <<wasm, files, input, poolVars, mainVars, nodeVars>>

CallBinDevelopmentConfig ==
    /\ chainCall' = Called("bin", "development_config", <<>>, bin_development_config)
    /\ UNCHANGED <<wasm, files, input, poolVars, mainVars, nodeVars>>

CallBinLocalTestnetConfig ==
    /\ chainCall' = Called("bin", "local_testnet_config", <<>>, bin_local_testnet_config)
    /\ UNCHANGED <<wasm, files, input, poolVars, mainVars, nodeVars>>

CallLoadSpec ==
    /\ chainCall' = Called("node", "load_spec", <<input.id>>, load_spec(input.id))
    /\ UNCHANGED <<wasm, files, input, poolVars, mainVars, nodeVars>>

CallBinLoadSpec ==
    /\ chainCall' = Called("bin", "load_spec", <<input.id>>, bin_load_spec(input.id))
    /\ UNCHANGED <<wasm, files, input, poolVars, mainVars, nodeVars>>

CallCliLoadSpec ==
    /\ chainCall' = Called("node", "Cli::load_spec", <<input.id>>, cli_load_spec(input.id))
    /\ UNCHANGED <<wasm, files, input, poolVars, mainVars, nodeVars>>

CallBinCliLoadSpec ==
    /\ chainCall' = Called("bin", "Cli::load_spec", <<input.id>>, bin_cli_load_spec(input.id))
    /\ UNCHANGED <<wasm, files, input, poolVars, mainVars, nodeVars>>

\* --------------------------------------------------------------------- rpc
\* RpcModule::new(()): a module without methods.
RpcModuleNew == {}

\* System::new(client, pool, deny_unsafe).into_rpc(): the methods of the
\* System RPC extension, each bound to the extension's state.
SystemIntoRpc(client, pool, deny_unsafe) ==
    {[name |-> n, client |-> client, pool |-> pool, deny_unsafe |-> deny_unsafe] :
         n \in {"system_accountNextIndex", "system_dryRun"}}

\* RpcModule::merge: the methods of other join the module unless a method
\* of that name is registered already.
merge(module, other) ==
    IF \E m \in module, o \in other : m.name = o.name
    THEN Err("method already registered", <<"merge">>)
    ELSE Ok(module \cup other, <<"merge">>)

\* A create_full that builds the extension without the caller's flag.
create_full_mutant(deps) ==
    After(<<"create_full">>, merge(RpcModuleNew, SystemIntoRpc(deps[1], deps[2], FALSE)))

\* create_full (node/cli rpc.rs)
create_full(deps) ==
    After(<<"create_full">>, merge(RpcModuleNew, SystemIntoRpc(deps[1], deps[2], deps[3])))

CallCreateFull ==
    /\ chainCall' = Called("node", "create_full", input.deps, create_full(input.deps))
    /\ UNCHANGED <<wasm, files, input, poolVars, mainVars, nodeVars>>

\* Any build (with or without the runtime's wasm) and any files.
InitChain ==
    /\ wasm \in BOOLEAN
    /\ files \in [FilePaths -> {"missing", "garbage", "custom"}]
    /\ input \in Inputs
    /\ chainCall = [krate |-> "node", fn |-> "none", arg |-> <<>>,
                    result |-> Ok("none", <<>>)]
    /\ PoolIdle
    /\ MainIdle
    /\ NodeIdle

NextChain ==
    \/ CallTestnetGenesis
    \/ CallDevelopmentConfig
    \/ CallLocalTestnetConfig
    \/ CallBinDevelopmentConfig
    \/ CallBinLocalTestnetConfig
    \/ CallLoadSpec
    \/ CallBinLoadSpec
    \/ CallCliLoadSpec
    \/ CallBinCliLoadSpec
    \/ CallCreateFull

SpecChain == InitChain /\ [][NextChain]_vars

\* ---------------------------------------------------- command and service
\* The subcommands of the two command lines ("None": no subcommand given;
\* Benchmark exists in bin/node/cli only), and those that work on the
\* partial components.
Subcommands ==
    {"None", "BuildSpec", "CheckBlock", "ExportBlocks", "ExportState", "ImportBlocks",
     "PurgeChain", "Revert", "Benchmark"}
PartialSubcommands == {"CheckBlock", "ExportBlocks", "ExportState", "ImportBlocks", "Revert"}

\* The command lines tried: config.role.is_authority(), config.disable_grandpa
\* and config.telemetry_endpoints (None, Some of no endpoint, Some of endpoints).
Clis ==
    {c \in [krate : {"node", "bin"}, subcommand : Subcommands, authority : BOOLEAN,
            disable_grandpa : BOOLEAN, telemetry_endpoints : {"none", "empty", "some"}] :
         c.subcommand = "Benchmark" => c.krate = "bin"}

\* The values of --chain tried.
NodeChainIds == {"dev", "local", "spec.json"}

\* The characters of a chain spec's id.
IdChars(id) ==
    CASE id = "dev"           -> <<"d", "e", "v">>
      [] id = "devnet"        -> <<"d", "e", "v", "n", "e", "t">>
      [] id = "local_testnet" -> <<"l", "o", "c", "a", "l", "_", "t", "e", "s", "t", "n", "e", "t">>
      [] id = "custom"        -> <<"c", "u", "s", "t", "o", "m">>

\* str::starts_with
starts_with(str, prefix) ==
    /\ Len(prefix) <= Len(str)
    /\ SubSeq(str, 1, Len(prefix)) = prefix

\* cli.create_runner(cmd): the configuration is made, its chain spec loaded
\* by the crate's Cli::load_spec from the value of --chain.
create_runner ==
    IF cli.krate = "node" THEN cli_load_spec(input.id) ELSE bin_cli_load_spec(input.id)

\* run returns: Err from one of its callees, or the result of the branch.
Exit(entries, tag) ==
    /\ log' = log \o entries
    /\ outcome' = Some(tag)
    /\ npc' = "exited"

\* `?` in new_partial: new_partial returns Err, and so does new_full (when
\* new_full is the caller) and run.
PartialErr(entries) ==
    Exit(entries \o <<<<"return Err", "new_partial">>>>
             \o (IF cli.subcommand = "None" THEN <<<<"return Err", "new_full">>>> ELSE <<>>),
         "Err")

\* `?` in new_full: new_full returns Err, and so does run.
FullErr(entries) == Exit(entries \o <<<<"return Err", "new_full">>>>, "Err")

\* A dispatch that sends Revert to the full node.
DispatchMutant ==
    /\ npc = "run"
    /\ LET r == create_runner
           toFull == cli.subcommand \in {"None", "Revert"} IN
       IF r.tag # "Ok"
       THEN /\ Exit(<<<<"branch", cli.subcommand>>>>, "Err")
            /\ UNCHANGED chain_spec
       ELSE /\ chain_spec' = Some(r.val)
            /\ log' = log \o <<<<"branch", cli.subcommand>>>>
                          \o (IF toFull THEN <<<<"enter", "new_full">>>> ELSE <<>>)
                          \o (IF toFull \/ cli.subcommand \in PartialSubcommands
                              THEN <<<<"enter", "new_partial">>>> ELSE <<>>)
            /\ npc' = CASE cli.subcommand = "BuildSpec"  -> "build_spec"
                        [] cli.subcommand = "PurgeChain" -> "purge_chain"
                        [] cli.subcommand = "Benchmark"  -> "benchmark"
                        [] OTHER                         -> "new_partial"
            /\ UNCHANGED outcome
    /\ UNCHANGED <<cli, database, poolVars, mainVars, chainVars>>

\* run: the match on cli.subcommand, create_runner, and the entry into the
\* closure given to sync_run, async_run or run_node_until_exit.
Dispatch ==
    /\ npc = "run"
    /\ LET r == create_runner IN
       IF r.tag # "Ok"
       THEN /\ Exit(<<<<"branch", cli.subcommand>>>>, "Err")
            /\ UNCHANGED chain_spec
       ELSE /\ chain_spec' = Some(r.val)
            /\ log' = log \o <<<<"branch", cli.subcommand>>>>
                          \o (IF cli.subcommand = "None"
                              THEN <<<<"enter", "new_full">>>> ELSE <<>>)
                          \o (IF cli.subcommand \in PartialSubcommands \cup {"None"}
                              THEN <<<<"enter", "new_partial">>>> ELSE <<>>)
            /\ npc' = CASE cli.subcommand = "BuildSpec"  -> "build_spec"
                        [] cli.subcommand = "PurgeChain" -> "purge_chain"
                        [] cli.subcommand = "Benchmark"  -> "benchmark"
                        [] OTHER                         -> "new_partial"
            /\ UNCHANGED outcome
    /\ UNCHANGED <<cli, database, poolVars, mainVars, chainVars>>

\* BuildSpec: cmd.run(chain_spec, config.network)
BuildSpec ==
    /\ npc = "build_spec"
    /\ \E tag \in {"Ok", "Err"} : Exit(<<<<"run", "BuildSpec">>>>, tag)
    /\ UNCHANGED <<cli, chain_spec, database, poolVars, mainVars, chainVars>>

\* Benchmark (bin/node/cli): cmd.run(config)
Benchmark ==
    /\ npc = "benchmark"
    /\ \E tag \in {"Ok", "Err"} : Exit(<<<<"run", "Benchmark">>>>, tag)
    /\ UNCHANGED <<cli, chain_spec, database, poolVars, mainVars, chainVars>>

\* PurgeChain: node/cli looks at the id of the chain spec first; cmd.run
\* removes the database, or not (declined, nothing to remove), or fails.
PurgeChain ==
    /\ npc = "purge_chain"
    /\ LET id == IdChars(chain_spec[1].id) IN
       IF cli.krate = "node" /\ ~(starts_with(id, IdChars("dev"))
                                   \/ starts_with(id, SubSeq(IdChars("local_testnet"), 1, 5)))
       THEN /\ Exit(<<<<"error", "Only development and local testnet chains can be purged.">>>>,
                    "Err")
            /\ UNCHANGED database
       ELSE \E tag \in {"Ok", "Err"}, after \in {"intact", "purged"} :
                /\ Exit(<<<<"run", "PurgeChain">>>>, tag)
                /\ database' = after
    /\ UNCHANGED <<cli, chain_spec, poolVars, mainVars, chainVars>>

\* A new_partial that makes a worker for any Some(endpoints), empty or not.
NewPartialTelemetryMutant ==
    /\ npc = "new_partial"
    /\ IF cli.telemetry_endpoints # "none"
       THEN \E ok \in BOOLEAN :
                IF ok THEN /\ log' = log \o <<<<"build", "telemetry_worker">>>>
                           /\ npc' = "new_full_parts"
                           /\ UNCHANGED outcome
                ELSE PartialErr(<<>>)
       ELSE /\ npc' = "new_full_parts"
            /\ UNCHANGED <<log, outcome>>
    /\ UNCHANGED <<cli, chain_spec, database, poolVars, mainVars, chainVars>>

\* new_partial: the telemetry worker, when endpoints are configured.
NewPartialTelemetry ==
    /\ npc = "new_partial"
    /\ IF cli.telemetry_endpoints = "some"
       THEN \E ok \in BOOLEAN :
                IF ok THEN /\ log' = log \o <<<<"build", "telemetry_worker">>>>
                           /\ npc' = "new_full_parts"
                           /\ UNCHANGED outcome
                ELSE PartialErr(<<>>)
       ELSE /\ npc' = "new_full_parts"
            /\ UNCHANGED <<log, outcome>>
    /\ UNCHANGED <<cli, chain_spec, database, poolVars, mainVars, chainVars>>

\* new_partial: new_full_parts, the telemetry task, the chain selection and
\* the transaction pool.
NewPartialParts ==
    /\ npc = "new_full_parts"
    /\ \E ok \in BOOLEAN :
           IF ok
           THEN /\ log' = log \o <<<<"build", "client">>, <<"build", "backend">>,
                                   <<"build", "keystore_container">>,
                                   <<"build", "task_manager">>>>
                              \o (IF cli.telemetry_endpoints = "some"
                                  THEN <<<<"spawn", "telemetry">>>> ELSE <<>>)
                              \o <<<<"build", "select_chain">>, <<"build", "transaction_pool">>>>
                /\ npc' = "import_queue"
                /\ UNCHANGED outcome
           ELSE PartialErr(<<>>)
    /\ UNCHANGED <<cli, chain_spec, database, poolVars, mainVars, chainVars>>

\* The telemetry in `other` of the components new_partial returns: Some if
\* the worker was made, None otherwise.
ReturnedTelemetry ==
    <<"other", IF \E k \in DOMAIN log : log[k] = <<"build", "telemetry_worker">>
               THEN "Some(telemetry)" ELSE "None">>

\* Where the caller of new_partial goes on after Ok.
AfterNewPartial == IF cli.subcommand = "None" THEN "build_network" ELSE "subcommand"

\* new_partial (node/cli): the Grandpa block import, the slot duration and
\* the Aura import queue.
NewPartialImportQueue ==
    /\ npc = "import_queue"
    /\ cli.krate = "node"
    /\ \E fail \in {"none", "block_import", "slot_duration", "import_queue"} :
           CASE fail = "none" ->
                    /\ log' = log \o <<<<"build", "grandpa_block_import">>,
                                       <<"build", "import_queue">>,
                                       ReturnedTelemetry,
                                       <<"return Ok", "new_partial">>>>
                    /\ npc' = AfterNewPartial
                    /\ UNCHANGED outcome
             [] fail = "block_import" -> PartialErr(<<>>)
             [] OTHER -> PartialErr(<<<<"build", "grandpa_block_import">>>>)
    /\ UNCHANGED <<cli, chain_spec, database, poolVars, mainVars, chainVars>>

\* new_partial (bin/node/cli): the basic import queue.
BinNewPartialImportQueue ==
    /\ npc = "import_queue"
    /\ cli.krate = "bin"
    /\ log' = log \o <<<<"build", "import_queue">>, ReturnedTelemetry,
                        <<"return Ok", "new_partial">>>>
    /\ npc' = AfterNewPartial
    /\ UNCHANGED <<cli, chain_spec, database, outcome, poolVars, mainVars, chainVars>>

\* CheckBlock, ExportBlocks, ExportState, ImportBlocks, Revert: cmd.run on
\* the partial components.
RunSubcommand ==
    /\ npc = "subcommand"
    /\ \E tag \in {"Ok", "Err"} : Exit(<<<<"run", cli.subcommand>>>>, tag)
    /\ UNCHANGED <<cli, chain_spec, database, poolVars, mainVars, chainVars>>

\* A new_full that starts the network as soon as it is built.
NewFullNetworkMutant ==
    /\ npc = "build_network"
    /\ \E ok \in BOOLEAN :
           IF ok
           THEN /\ log' = log \o <<<<"build", "network">>, <<"start", "network">>>>
                              \o (IF cli.krate = "node"
                                  THEN <<<<"build", "sync_service">>>> ELSE <<>>)
                /\ npc' = IF cli.krate = "node" THEN "aura" ELSE "spawn_tasks"
                /\ UNCHANGED outcome
           ELSE FullErr(<<>>)
    /\ UNCHANGED <<cli, chain_spec, database, poolVars, mainVars, chainVars>>

\* new_full: build_network (and, in node/cli, the syncing service).
NewFullNetwork ==
    /\ npc = "build_network"
    /\ \E ok \in BOOLEAN :
           IF ok
           THEN /\ log' = log \o <<<<"build", "network">>>>
                              \o (IF cli.krate = "node"
                                  THEN <<<<"build", "sync_service">>>> ELSE <<>>)
                /\ npc' = IF cli.krate = "node" THEN "aura" ELSE "spawn_tasks"
                /\ UNCHANGED outcome
           ELSE FullErr(<<>>)
    /\ UNCHANGED <<cli, chain_spec, database, poolVars, mainVars, chainVars>>

\* A new_full that spawns the authoring task whatever the role is.
NewFullAuraMutant ==
    /\ npc = "aura"
    /\ log' = log \o <<<<"build", "proposer">>, <<"build", "aura">>, <<"spawn", "aura">>>>
    /\ npc' = "grandpa"
    /\ UNCHANGED <<cli, chain_spec, database, outcome, poolVars, mainVars, chainVars>>

\* new_full (node/cli): block authoring, if the node is an authority.
NewFullAura ==
    /\ npc = "aura"
    /\ IF cli.authority
       THEN \E fail \in {"none", "slot_duration", "start_aura"} :
                IF fail = "none"
                THEN /\ log' = log \o <<<<"build", "proposer">>, <<"build", "aura">>,
                                        <<"spawn", "aura">>>>
                     /\ npc' = "grandpa"
                     /\ UNCHANGED outcome
                ELSE FullErr(<<<<"build", "proposer">>>>)
       ELSE /\ npc' = "grandpa"
            /\ UNCHANGED <<log, outcome>>
    /\ UNCHANGED <<cli, chain_spec, database, poolVars, mainVars, chainVars>>

\* new_full (node/cli): the Grandpa voter, if Grandpa is enabled.
NewFullGrandpa ==
    /\ npc = "grandpa"
    /\ IF ~cli.disable_grandpa
       THEN \E ok \in BOOLEAN :
                IF ok
                THEN /\ log' = log \o <<<<"build", "grandpa_voter">>,
                                        <<"spawn", "grandpa-voter">>>>
                     /\ npc' = "start_network"
                     /\ UNCHANGED outcome
                ELSE FullErr(<<>>)
       ELSE /\ npc' = "start_network"
            /\ UNCHANGED <<log, outcome>>
    /\ UNCHANGED <<cli, chain_spec, database, poolVars, mainVars, chainVars>>

\* new_full (node/cli): network_starter.start() and Ok(task_manager).
NewFullStart ==
    /\ npc = "start_network"
    /\ log' = log \o <<<<"start", "network">>, <<"return Ok", "new_full">>>>
    /\ npc' = "running"
    /\ UNCHANGED <<cli, chain_spec, database, outcome, poolVars, mainVars, chainVars>>

\* new_full (bin/node/cli): the RPC builder, spawn_tasks and Ok(task_manager).
BinNewFullSpawnTasks ==
    /\ npc = "spawn_tasks"
    /\ \E ok \in BOOLEAN :
           IF ok
           THEN /\ log' = log \o <<<<"build", "rpc_builder">>, <<"run", "spawn_tasks">>,
                                   <<"return Ok", "new_full">>>>
                /\ npc' = "running"
                /\ UNCHANGED outcome
           ELSE FullErr(<<<<"build", "rpc_builder">>>>)
    /\ UNCHANGED <<cli, chain_spec, database, poolVars, mainVars, chainVars>>

\* run_node_until_exit: the node runs until a signal (Ok) or the failure of
\* an essential task (Err).
RunUntilExit ==
    /\ npc = "running"
    /\ \E tag \in {"Ok", "Err"} : Exit(<<<<"exit", "node">>>>, tag)
    /\ UNCHANGED <<cli, chain_spec, database, poolVars, mainVars, chainVars>>

\* One invocation of the node binary: any command line, any build, any file
\* at the path given to --chain.
InitNode ==
    /\ cli \in Clis
    /\ npc = "run"
    /\ chain_spec = None
    /\ log = <<>>
    /\ database = "intact"
    /\ outcome = None
    /\ wasm \in BOOLEAN
    /\ files \in {f \in [FilePaths -> FileContents] : f["local"] = "missing"}
    /\ input \in [id : NodeChainIds, genesis : {<<"wasm", <<>>, "root", <<>>, TRUE>>},
                  deps : {<<"client", "pool", TRUE>>}]
    /\ chainCall = [krate |-> "node", fn |-> "none", arg |-> <<>>,
                    result |-> Ok("none", <<>>)]
    /\ PoolIdle
    /\ MainIdle

NextNode ==
    \/ Dispatch
    \/ BuildSpec
    \/ Benchmark
    \/ PurgeChain
    \/ NewPartialTelemetry
    \/ NewPartialParts
    \/ NewPartialImportQueue
    \/ BinNewPartialImportQueue
    \/ RunSubcommand
    \/ NewFullNetwork
    \/ NewFullAura
    \/ NewFullGrandpa
    \/ NewFullStart
    \/ BinNewFullSpawnTasks
    \/ RunUntilExit

SpecNode == InitNode /\ [][NextNode]_vars

\* ------------------------------------------------- claims about the facade
Min(a, b) == IF a < b THEN a ELSE b

\* C1: an iterator returned by ready_at yields the stored transactions t1..tn
\* in the stored order, one per call of next, and every call of next after the
\* n-th returns None: after c calls it has yielded the first min(c, n)
\* transactions and nothing else, and the c-th call returned Some(tc) if
\* c <= n and None otherwise.
C1_ReadyIteratorYieldsAllInOrder ==
    \A i \in DOMAIN iters :
        LET it == iters[i]
            n  == Len(txs)
        IN
        /\ it.yielded = SubSeq(txs, 1, Min(it.calls, n))
        /\ it.calls > 0 =>
               it.last = IF it.calls <= n THEN Some(txs[it.calls]) ELSE None

\* An iterator over a batch of two different transactions that yielded both
\* and then reported the end twice.
C1_Witness ==
    \E i \in DOMAIN iters :
        /\ Len(txs) = 2
        /\ txs[1] # txs[2]
        /\ iters[i].calls = 4
        /\ iters[i].yielded = txs
        /\ iters[i].last = None

\* C2: the batch is fixed: whatever was called, the collection holds the
\* sequence it was created with, and every iterator handed out by ready_at
\* covers that whole sequence from its first element (what it has yielded
\* followed by what it still holds is the created sequence).
C2_BatchIsFixed ==
    /\ txs = created
    /\ \A i \in DOMAIN iters : iters[i].yielded \o iters[i].rest = created
    /\ (lastCall.op = "ready_at" =>
            /\ lastCall.ret = Some(Len(iters))
            /\ iters[Len(iters)].rest = created)

\* A second ready_at, called once the first iterator was exhausted, returned
\* a fresh iterator over the whole batch of two.
C2_Witness ==
    /\ lastCall.op = "ready_at"
    /\ Len(created) = 2
    /\ Len(iters) = 2
    /\ iters[1].rest = <<>>
    /\ iters[1].calls > 2
    /\ iters[2].rest = created

\* C3 (as claimed): data() returns the wrapped blob and hash() a hash of the
\* blob's content, so that the wrappers of two different blobs held by a
\* collection report different hashes.
C3_HashIsContentHash ==
    /\ (lastCall.op = "data" => lastCall.ret = Some(lastCall.arg[1].data))
    /\ \A i, j \in DOMAIN txs :
           txs[i].data # txs[j].data => txs[i].hash # txs[j].hash

MetadataAccessors == {"priority", "longevity", "requires", "provides", "is_propagable"}

\* C4: priority, longevity, requires, provides and is_propagable panic
\* for every PoolTransaction; data and hash return a value.
C4_MetadataAccessorsPanic ==
    /\ (lastCall.op \in MetadataAccessors =>
            lastCall.outcome = "panicked" /\ lastCall.ret = None)
    /\ (lastCall.op \in {"data", "hash"} =>
            lastCall.outcome = "returned" /\ lastCall.ret # None)

\* priority was called on a wrapper and panicked.
C4_Witness ==
    /\ lastCall.op = "priority"
    /\ lastCall.arg[1] \in PoolTransactions
    /\ lastCall.outcome = "panicked"

UnimplementedOps ==
    {"submit_at", "submit_one", "submit_and_watch", "ready", "ready_at_with_timeout",
     "futures", "status", "import_notification_stream", "on_broadcasted", "hash_of",
     "ready_transaction"}

\* C5: of the pool operations only ready_at and report_invalid return; the
\* eleven others panic, and after a submission the collection holds what it
\* held when it was created.
C5_OnlyReadyAtAndReportInvalidReturn ==
    /\ (lastCall.op \in {"ready_at", "report_invalid"} => lastCall.outcome = "returned")
    /\ (lastCall.op \in UnimplementedOps =>
            lastCall.outcome = "panicked" /\ lastCall.ret = None)
    /\ (lastCall.op \in {"submit_at", "submit_one", "submit_and_watch"} =>
            txs = created)

\* submit_one was called on a collection that has room and panicked.
C5_Witness ==
    /\ lastCall.op = "submit_one"
    /\ lastCall.outcome = "panicked"
    /\ Len(txs) < MaxLen

\* C6: a call of Transactions::report_invalid returns the empty vector and
\* changes neither the collection nor any iterator.
C6_ReportInvalidRemovesNothing ==
    [][lastCall'.op = "report_invalid" =>
           /\ lastCall'.ret = Some(<<>>)
           /\ txs' = txs
           /\ iters' = iters]_vars

\* report_invalid was called with the hash of a transaction of the collection.
C6_Witness ==
    /\ lastCall.op = "report_invalid"
    /\ Reported(txs, lastCall.arg[2]) # {}
    /\ lastCall.ret = Some(<<>>)

\* C7 (as claimed): a call of ConstructionBenchmark::run invokes ready_at and
\* consumes the transactions of the batch before it returns.
C7_RunFeedsBatchThroughFacade ==
    [][lastCall'.op = "run" =>
           /\ Len(iters') > Len(iters)
           /\ iters'[Len(iters')].yielded = txs]_vars

\* C20: a call of report_invalid on an iterator changes no iterator: what
\* each still has to yield, and its position, are what they were, also when
\* the reported transaction is still ahead; the collection is unchanged too.
C20_IteratorReportInvalidHasNoEffect ==
    [][lastCall'.op = "iter_report_invalid" => iters' = iters /\ txs' = txs]_vars

\* report_invalid was called, on an iterator that had yielded one of two
\* transactions, with the transaction that is next.
C20_Witness ==
    /\ lastCall.op = "iter_report_invalid"
    /\ LET it == iters[lastCall.arg[1]] IN
       /\ it.calls = 1
       /\ Len(it.rest) = 1
       /\ it.rest[1] = lastCall.arg[2]

\* C21: iterators from separate ready_at calls are independent: a call of
\* next or report_invalid on one iterator leaves every other iterator and the
\* collection as they were, a later ready_at leaves the iterators there are
\* untouched and returns one over the whole stored sequence, and so each
\* iterator, whatever the others did, has yielded the first transactions of
\* the stored sequence, as many as it was asked for.
C21_IteratorsAreIndependent ==
    [][/\ lastCall'.op \in {"next", "iter_report_invalid"} =>
              /\ txs' = txs
              /\ DOMAIN iters' = DOMAIN iters
              /\ \A j \in DOMAIN iters \ {lastCall'.arg[1]} : iters'[j] = iters[j]
       /\ lastCall'.op = "ready_at" =>
              /\ txs' = txs
              /\ SubSeq(iters', 1, Len(iters)) = iters
              /\ iters'[Len(iters')] = IntoIter(txs)
       /\ \A j \in DOMAIN iters' :
              iters'[j].yielded = SubSeq(txs', 1, Min(iters'[j].calls, Len(txs')))]_vars

\* Two iterators over two transactions: the second was taken to its end
\* before the first was asked for its first transaction.
C21_Witness ==
    /\ Len(txs) = 2
    /\ txs[1] # txs[2]
    /\ Len(iters) = 2
    /\ iters[2].calls = 3
    /\ iters[2].rest = <<>>
    /\ iters[1].calls = 1
    /\ lastCall = Returned("next", <<1>>, Some(txs[1]))

\* --------------------------------------------------- claims about main
\* The benchmarks among the first k of the vector that the filter selects.
SelectedUpTo(k) ==
    LET sel(b) == Selected(opt, b) IN SelectSeq(SubSeq(benchmarks, 1, k), sel)

\* The (name, path) lines of standard output.
ItemLines ==
    LET isItem(l) == l[1] = "item" IN SelectSeq(stdout, isItem)

\* C8 (as claimed): with --json nothing but the JSON result is written to
\* standard output.
C8_JsonSuppressesRegularOutput ==
    opt.json => \A k \in DOMAIN stdout : stdout[k][1] = "json"

C10_SelectedBenchmarksRunOnceInOrder ==
    (~opt.list /\ pc # "start") =>
        LET k   == IF pc = "run" THEN idx - 1 ELSE Len(benchmarks)
            sel == SelectedUpTo(k)
        IN
        /\ ran = [j \in 1..Len(sel) |-> sel[j].kind]
        /\ results = [j \in 1..Len(sel) |-> run_benchmark(sel[j], opt.mode)]

\* A run with a filter that selects import and construction but not txpool
\* has finished.
C10_Witness ==
    /\ ~opt.list
    /\ opt.filter # None
    /\ pc = "done"
    /\ ran = <<"import", "construction">>
    /\ Len(results) = 2
\* The JSON lines of standard output.
JsonLines ==
    LET isJson(l) == l[1] = "json" IN SelectSeq(stdout, isJson)

\* C11: without --list, once the process has ended: if no benchmark ran, it
\* wrote 'No benchmark was found for query' to standard error, exited with
\* status 1 and printed no JSON; if at least one ran, it ended with status 0,
\* wrote nothing to standard error, and printed the JSON array of the
\* results exactly once if --json is set and not at all otherwise.
C11_NoMatchExitsWithFailure ==
    (~opt.list /\ exitCode # None) =>
        IF ran = <<>>
        THEN /\ exitCode = Some(1)
             /\ stderr = <<<<"No benchmark was found for query">>>>
             /\ stdout = <<>>
        ELSE /\ exitCode = Some(0)
             /\ stderr = <<>>
             /\ stdout = JsonLines
             /\ JsonLines = IF opt.json THEN <<<<"json", results>>>> ELSE <<>>

\* --json with a filter that matches no benchmark: the process exited with 1.
C11_Witness ==
    /\ ~opt.list
    /\ opt.json
    /\ opt.filter # None
    /\ ran = <<>>
    /\ exitCode = Some(1)
    /\ pc = "exited"


\* --------------------------------------------- claims about the chain specs
\* Function f was entered on the way to result r.
Entered(r, f) == \E k \in DOMAIN r.trace : r.trace[k] = f

\* What the file at path holds ("missing" where no file can exist).
FileAt(path) == IF path \in FilePaths THEN files[path] ELSE "missing"

\* C12: Cli::load_spec of either crate resolves each built-in name ("dev",
\* "local_testnet" in node/cli; "dev", "" and "local" in bin/node/cli) to its
\* built-in configuration without looking at any file, treats every other
\* identifier as the path of a JSON chain-spec file, and returns every failure
\* as Err: it never panics.
C12_CliLoadSpecResolvesNamesAndPaths ==
    chainCall.fn = "Cli::load_spec" =>
        LET id == chainCall.arg[1]
            r == chainCall.result
            dev == id = "dev"
            local == IF chainCall.krate = "node" THEN id = "local_testnet"
                     ELSE id \in {"", "local"}
        IN /\ r.tag \in {"Ok", "Err"}
           /\ dev => r.trace[1] = "development_config" /\ ~Entered(r, "from_json_file")
           /\ local => r.trace[1] = "local_testnet_config" /\ ~Entered(r, "from_json_file")
           /\ (dev /\ r.tag = "Ok") => r.val.id = "dev"
           /\ (local /\ r.tag = "Ok") => r.val.id = "local_testnet"
           /\ (~dev /\ ~local) =>
                 /\ r.trace = <<"from_json_file">>
                 /\ r.tag = "Ok" <=> FileAt(id) = "custom"
                 /\ r.tag = "Ok" => r.val.id = CustomSpecJson.json.id

\* A built-in name wins over a file of that name.
C12_Witness ==
    /\ chainCall.fn = "Cli::load_spec"
    /\ chainCall.krate = "bin"
    /\ chainCall.arg = <<"local">>
    /\ files["local"] = "custom"
    /\ chainCall.result.tag = "Ok"
    /\ chainCall.result.val.id = "local_testnet"

\* C13: chain_spec::load_spec of either crate resolves "dev", "development",
\* "local" and "local_testnet" to the built-in configuration, and treats any
\* other identifier as the path of a spec file, returning the spec or Err.
C13_LoadSpecTakesNameOrPath ==
    chainCall.fn = "load_spec" =>
        LET id == chainCall.arg[1]
            r == chainCall.result
        IN /\ id \in {"dev", "development"} => Entered(r, "development_config")
           /\ id \in {"local", "local_testnet"} => Entered(r, "local_testnet_config")
           /\ id \notin {"dev", "development", "local", "local_testnet"} =>
                 /\ r.tag \in {"Ok", "Err"}
                 /\ Entered(r, "from_json_file")

\* C17: with the wasm binary available, development_config of node/cli
\* returns Ok with a genesis whose only validator is Alice and whose sudo key
\* is Alice, and local_testnet_config returns Ok with exactly Alice and Bob,
\* in that order, and Alice as sudo key.
C17_BuiltInConfigsReturnTheirGenesis ==
    (chainCall.krate = "node" /\ wasm
        /\ chainCall.fn \in {"development_config", "local_testnet_config"}) =>
        LET r == chainCall.result
            validators == IF chainCall.fn = "development_config" THEN <<"Alice">>
                          ELSE <<"Alice", "Bob">>
        IN /\ r.tag = "Ok"
           /\ r.val.genesis.aura.authorities =
                  [k \in DOMAIN validators |-> authority_keys_from_seed(validators[k])[1]]
           /\ r.val.genesis.grandpa.authorities =
                  [k \in DOMAIN validators |-> <<authority_keys_from_seed(validators[k])[2], 1>>]
           /\ r.val.genesis.sudo.key = Some(get_account_id_from_seed("Alice"))

\* C18: testnet_genesis gives every endowed account, and no other, a balance
\* of 1 << 60, in the order given and once per occurrence; the Aura
\* authorities are the first components of the authority pairs and the
\* Grandpa authorities the second components with weight 1, both in the order
\* and number given; the sudo key is root_key; the wasm binary and the
\* enable_println flag have no influence on the result.
C18_TestnetGenesisFollowsItsArguments ==
    chainCall.fn = "testnet_genesis" =>
        LET initial_authorities == chainCall.arg[2]
            root_key == chainCall.arg[3]
            endowed_accounts == chainCall.arg[4]
            g == chainCall.result.val
        IN /\ chainCall.result.tag = "Ok"
           /\ Len(g.balances.balances) = Len(endowed_accounts)
           /\ \A k \in DOMAIN endowed_accounts :
                  g.balances.balances[k] = <<endowed_accounts[k], Balance>>
           /\ Len(g.aura.authorities) = Len(initial_authorities)
           /\ Len(g.grandpa.authorities) = Len(initial_authorities)
           /\ \A k \in DOMAIN initial_authorities :
                  /\ g.aura.authorities[k] = initial_authorities[k][1]
                  /\ g.grandpa.authorities[k] = <<initial_authorities[k][2], 1>>
           /\ g.sudo.key = Some(root_key)
           /\ \A wasm_binary \in {"", "wasm"}, enable_println \in BOOLEAN :
                  testnet_genesis(wasm_binary, initial_authorities, root_key,
                                  endowed_accounts, enable_println) = g

\* An account endowed twice and two authorities.
C18_Witness ==
    /\ chainCall.fn = "testnet_genesis"
    /\ Len(chainCall.arg[4]) = 2
    /\ chainCall.arg[4][1] = chainCall.arg[4][2]
    /\ Len(chainCall.arg[2]) = 2
    /\ chainCall.arg[2][1] # chainCall.arg[2][2]
    /\ Len(chainCall.result.val.balances.balances) = 2


\* C19: create_full returns Ok with a module that holds the methods of the
\* System RPC extension built from the given client, pool and deny_unsafe
\* flag, and nothing else; when the merge fails it returns the error and no
\* module.
C19_CreateFullReturnsSystemModule ==
    chainCall.fn = "create_full" =>
        LET deps == chainCall.arg
            r == chainCall.result
            merged == merge(RpcModuleNew, SystemIntoRpc(deps[1], deps[2], deps[3]))
        IN /\ r.tag = merged.tag
           /\ r.tag = "Ok" =>
                 /\ r.val # {}
                 /\ \A m \in r.val :
                        /\ m.client = deps[1] /\ m.pool = deps[2]
                        /\ m.deny_unsafe = deps[3]
                 /\ {m.name : m \in r.val} = {"system_accountNextIndex", "system_dryRun"}
           /\ r.tag = "Err" => r.val = "method already registered"

\* create_full was called for a caller that allows unsafe calls.
C19_Witness ==
    /\ chainCall.fn = "create_full"
    /\ chainCall.arg = <<"client_b", "pool_b", FALSE>>
    /\ chainCall.result.tag = "Ok"
    /\ \E m \in chainCall.result.val : m.name = "system_dryRun" /\ ~m.deny_unsafe


\* ------------------------------------- claims about command and service
\* Entry e is in the log, and how often.
Logged(e) == \E k \in DOMAIN log : log[k] = e
Count(e) == Cardinality({k \in DOMAIN log : log[k] = e})

\* The entries of one kind.
Entries(kind) == LET isKind(e) == e[1] = kind IN SelectSeq(log, isKind)

\* C14: PurgeChain of node/cli purges the database only when the loaded
\* chain is the development chain ("dev") or the local testnet chain
\* ("local_testnet"); for every other chain spec, those loaded from a file of
\* the user in particular, it returns the error 'Only development and local
\* testnet chains can be purged.' and leaves the database untouched.
C14_PurgeChainSparesCustomSpecs ==
    (cli.krate = "node" /\ cli.subcommand = "PurgeChain" /\ npc = "exited"
        /\ chain_spec # None /\ chain_spec[1].id \notin {"dev", "local_testnet"}) =>
        /\ database = "intact"
        /\ outcome = Some("Err")
        /\ ~Logged(<<"run", "PurgeChain">>)
        /\ Logged(<<"error", "Only development and local testnet chains can be purged.">>)

\* C15: one invocation executes exactly one branch of the dispatch, the one
\* of its subcommand: without subcommand the node is built by new_full and
\* runs until exit; CheckBlock, ExportBlocks, ExportState, ImportBlocks and
\* Revert build the partial components through new_partial only, never the
\* network, block authoring or the finality voter; BuildSpec and PurgeChain
\* build no service component.
C15_DispatchRunsOneBranch ==
    /\ Entries("branch") = IF npc = "run" THEN <<>> ELSE <<<<"branch", cli.subcommand>>>>
    /\ \A k \in DOMAIN log :
           log[k][1] = "run" => log[k][2] \in {cli.subcommand, "spawn_tasks"}
    /\ Logged(<<"enter", "new_full">>) <=> (cli.subcommand = "None" /\ chain_spec # None)
    /\ (cli.subcommand = "None" /\ outcome = Some("Ok")) =>
           /\ Logged(<<"return Ok", "new_full">>)
           /\ log[Len(log)] = <<"exit", "node">>
    /\ cli.subcommand \in PartialSubcommands =>
           /\ Logged(<<"enter", "new_partial">>) <=> chain_spec # None
           /\ Logged(<<"run", cli.subcommand>>) =>
                  Logged(<<"return Ok", "new_partial">>) /\ Logged(<<"build", "client">>)
           /\ \A k \in DOMAIN log :
                  /\ log[k][1] \notin {"start", "exit"}
                  /\ log[k][1] = "spawn" => log[k][2] = "telemetry"
                  /\ log[k][1] = "build" =>
                         log[k][2] \notin {"network", "sync_service", "proposer", "aura",
                                           "grandpa_voter", "rpc_builder"}
    /\ cli.subcommand \in {"BuildSpec", "PurgeChain"} =>
           \A k \in DOMAIN log : log[k][1] \in {"branch", "run", "error"}

\* Revert of node/cli has run on the partial components.
C15_Witness ==
    /\ cli.krate = "node"
    /\ cli.subcommand = "Revert"
    /\ cli.telemetry_endpoints = "some"
    /\ Logged(<<"build", "grandpa_block_import">>)
    /\ Logged(<<"spawn", "telemetry">>)
    /\ log[Len(log)] = <<"run", "Revert">>
    /\ outcome = Some("Ok")

\* C16 as stated: once new_full of node/cli has returned, "aura" has been
\* spawned exactly once if the role is an authority and not at all
\* otherwise, and "grandpa-voter" exactly once if Grandpa is not disabled and
\* not at all otherwise.
C16_TasksSpawnedIffConfigured ==
    (cli.krate = "node"
        /\ (Logged(<<"return Ok", "new_full">>) \/ Logged(<<"return Err", "new_full">>))) =>
        /\ Count(<<"spawn", "aura">>) = IF cli.authority THEN 1 ELSE 0
        /\ Count(<<"spawn", "grandpa-voter">>) = IF cli.disable_grandpa THEN 0 ELSE 1

\* C16: in new_full of node/cli "aura" is spawned only for an authority and
\* "grandpa-voter" only when Grandpa is not disabled, each at most once; when
\* new_full returns Ok, "aura" has been spawned if and only if the role is an
\* authority and "grandpa-voter" if and only if Grandpa is not disabled.
C16_TasksSpawnedIffConfiguredWhenOk ==
    cli.krate = "node" =>
        /\ Count(<<"spawn", "aura">>) <= 1
        /\ Count(<<"spawn", "grandpa-voter">>) <= 1
        /\ Logged(<<"spawn", "aura">>) => cli.authority
        /\ Logged(<<"spawn", "grandpa-voter">>) => ~cli.disable_grandpa
        /\ Logged(<<"return Ok", "new_full">>) =>
               /\ Logged(<<"spawn", "aura">>) <=> cli.authority
               /\ Logged(<<"spawn", "grandpa-voter">>) <=> ~cli.disable_grandpa

\* An authority with Grandpa disabled: authoring without the voter.
C16_Witness ==
    /\ cli.krate = "node"
    /\ cli.authority
    /\ cli.disable_grandpa
    /\ Logged(<<"return Ok", "new_full">>)
    /\ Count(<<"spawn", "aura">>) = 1
    /\ ~Logged(<<"spawn", "grandpa-voter">>)


\* The positions of entry e in the log.
Positions(e) == {k \in DOMAIN log : log[k] = e}

\* C22: new_full of node/cli starts the network exactly once, as its last
\* step before it returns Ok: after build_network has succeeded and after
\* every spawn of a consensus task, with "aura" spawned for an authority and
\* "grandpa-voter" spawned when Grandpa is enabled; on a path that returns
\* Err the network is never started.
C22_NetworkStartedOnceAndLast ==
    cli.krate = "node" =>
        /\ Count(<<"start", "network">>) <= 1
        /\ Logged(<<"return Ok", "new_full">>) => Count(<<"start", "network">>) = 1
        /\ Logged(<<"return Err", "new_full">>) => ~Logged(<<"start", "network">>)
        /\ \A k \in Positions(<<"start", "network">>) :
               /\ k < Len(log)
               /\ log[k + 1] = <<"return Ok", "new_full">>
               /\ \E b \in Positions(<<"build", "network">>) : b < k
               /\ \A j \in DOMAIN log : log[j][1] \in {"spawn", "build"} => j < k
               /\ cli.authority => Logged(<<"spawn", "aura">>)
               /\ ~cli.disable_grandpa => Logged(<<"spawn", "grandpa-voter">>)

\* An authority with Grandpa enabled: both tasks spawned, then the network
\* started.
C22_Witness ==
    /\ cli.krate = "node"
    /\ cli.authority
    /\ ~cli.disable_grandpa
    /\ npc = "running"
    /\ Logged(<<"spawn", "aura">>)
    /\ Logged(<<"spawn", "grandpa-voter">>)
    /\ log[Len(log) - 1] = <<"start", "network">>

\* C23: whenever new_full of node/cli returns Err, neither the
\* block-authoring task nor the finality-voter task has been spawned.
C23_NewFullIsAllOrNothing ==
    (cli.krate = "node" /\ Logged(<<"return Err", "new_full">>)) =>
        /\ ~Logged(<<"spawn", "aura">>)
        /\ ~Logged(<<"spawn", "grandpa-voter">>)

\* C24: new_partial of either crate makes a telemetry worker and spawns the
\* "telemetry" task only for a non-empty list of endpoints, each at most
\* once and the task only after the worker; when it returns Ok, the worker
\* was made, the task spawned and Some(telemetry) returned if the list is
\* non-empty, and none of this happened and None is returned otherwise; a
\* worker that cannot be made is an Err before anything else is built.
C24_TelemetryFollowsEndpoints ==
    LET some == cli.telemetry_endpoints = "some" IN
    /\ Count(<<"build", "telemetry_worker">>) <= 1
    /\ Count(<<"spawn", "telemetry">>) <= 1
    /\ Logged(<<"build", "telemetry_worker">>) => some
    /\ \A k \in Positions(<<"spawn", "telemetry">>) :
           \E w \in Positions(<<"build", "telemetry_worker">>) : w < k
    /\ Logged(<<"return Ok", "new_partial">>) =>
           /\ Logged(<<"build", "telemetry_worker">>) <=> some
           /\ Logged(<<"spawn", "telemetry">>) <=> some
           /\ Logged(<<"other", "Some(telemetry)">>) <=> some
           /\ Logged(<<"other", "None">>) <=> ~some
    /\ (some /\ Logged(<<"return Err", "new_partial">>)
             /\ ~Logged(<<"build", "telemetry_worker">>)) =>
           Entries("build") = <<>> /\ Entries("spawn") = <<>>

\* new_partial of bin/node/cli returned its components with telemetry on.
C24_Witness ==
    /\ cli.krate = "bin"
    /\ cli.telemetry_endpoints = "some"
    /\ log # <<>>
    /\ log[Len(log)] = <<"return Ok", "new_partial">>
    /\ Count(<<"build", "telemetry_worker">>) = 1
    /\ Count(<<"spawn", "telemetry">>) = 1
    /\ Logged(<<"other", "Some(telemetry)">>)

\* C25: a node built by new_full of node/cli has create_full as the RPC
\* builder of the service tasks it spawned: once new_full has returned Ok,
\* the RPC builder was made and handed to spawn_tasks.
C25_NewFullWiresCreateFull ==
    (cli.krate = "node" /\ Logged(<<"return Ok", "new_full">>)) =>
        /\ Logged(<<"build", "rpc_builder">>)
        /\ Logged(<<"run", "spawn_tasks">>)


\* C26: without the runtime's wasm binary, development_config and
\* local_testnet_config of either crate return
\* Err("Development wasm binary not available"), a value and no panic,
\* having entered nothing else: no key generated, no genesis built, no chain
\* spec parsed or returned.
C26_NoWasmIsAnEarlyErr ==
    (~wasm /\ chainCall.fn \in {"development_config", "local_testnet_config"}) =>
        /\ chainCall.result.tag = "Err"
        /\ chainCall.result.val = "Development wasm binary not available"
        /\ chainCall.result.trace = <<chainCall.fn>>

\* development_config of node/cli was called in a build without the binary.
C26_Witness ==
    /\ ~wasm
    /\ chainCall.krate = "node"
    /\ chainCall.fn = "development_config"
    /\ chainCall.result.tag = "Err"

====
